---- MODULE Spec2Model ----
\* Model of homeassistant/components/media_player/itunes.py:
\* the itunes-api transport client (class Itunes) and the media player
\* adapter (class ItunesDevice) that caches the last response.
EXTENDS Integers, Sequences, FiniteSets, TLC

VARIABLES
    phase,      \* "new" before ItunesDevice(...), "ready" once __init__ returned, "failed" if __init__ raised
    conf,       \* _name, _host, _port given to __init__
    dev,        \* the cached fields of the ItunesDevice instance
    lastOp,     \* the adapter operation invoked by the latest operation step, with its argument
    http,       \* the HTTP calls made by the latest operation, in order
    requests,   \* number of HTTP calls made so far
    ops,        \* number of adapter operations invoked so far (__init__ included)
    outcome,    \* what the HTTP library did for the latest operation's call
    response,   \* what the client handed back to the adapter in the latest operation
    raised,     \* exception that escaped the latest operation, or "none"
    lastRead    \* property read by the latest step and the value it returned

vars == <<phase, conf, dev, lastOp, http, requests, ops, outcome, response, raised, lastRead>>

-----------------------------------------------------------------------------
\* Bounds

\* Adapter operations per behaviour, construction included.
MaxOps == 2

-----------------------------------------------------------------------------
\* Python values, tagged with their type so that None, strings, integers and
\* booleans can be compared with each other.

None == [t |-> "NoneType"]
Str(s) == [t |-> "str", v |-> s]
Int_(n) == [t |-> "int", v |-> n]
Bool(b) == [t |-> "bool", v |-> b]
Dict(m) == [t |-> "dict", v |-> m]
Float(n, d) == [t |-> "float", num |-> n, den |-> d]

\* dict.get(key, default)
Get(d, k, default) == IF k \in DOMAIN d THEN d[k] ELSE default

\* Results of a call: a returned value or an escaping exception.
Return(x) == [ret |-> x]
Raise(e) == [exc |-> e]
Raises(r) == "exc" \in DOMAIN r

-----------------------------------------------------------------------------
\* Imported constants

STATE_IDLE == "idle"
STATE_PLAYING == "playing"
STATE_PAUSED == "paused"

SUPPORT_ITUNES ==
    {"SUPPORT_PAUSE"} \cup {"SUPPORT_VOLUME_SET"} \cup {"SUPPORT_VOLUME_MUTE"}
        \cup {"SUPPORT_PREVIOUS_TRACK"} \cup {"SUPPORT_NEXT_TRACK"} \cup {"SUPPORT_SEEK"}

PLACEHOLDER_URL ==
    "https://cloud.githubusercontent.com/assets/260/9829355/33fab972-58cf-11e5-8ea2-2ca74bdaae40.png"

-----------------------------------------------------------------------------
\* The remote server and the HTTP library: inputs of the model

\* player_state values a response body carries ("buffering" stands for any
\* value the adapter does not know).
BodyPlayerStates == {"playing", "paused", "stopped", "error", "buffering"}

PlayerPart == {<<>>} \cup {[player_state |-> Str(s)] : s \in BodyPlayerStates}
TitlePart == {<<>>, [name |-> Str("Song A")]}
RestPart ==
    {<<>>,
     [volume |-> Int_(50), muted |-> Bool(TRUE), album |-> Str("Album A"),
      artist |-> Str("Artist A"), playlist |-> Str("Playlist A"), id |-> Str("ID-A")]}

\* Decoded JSON objects: every key optional.
JsonObjects == {Dict(p @@ n @@ r) : p \in PlayerPart, n \in TitlePart, r \in RestPart}

\* A body that is JSON but not an object.
JsonArray == [t |-> "list"]

\* A body that is not JSON: response.json() raises ValueError, or
\* requests.exceptions.JSONDecodeError (a RequestException) with newer
\* versions of the library.
Undecodable == {[t |-> "undecodable", exc |-> e] : e \in {"ValueError", "JSONDecodeError"}}

Bodies == JsonObjects \cup {JsonArray} \cup Undecodable

StatusCodes == {200, 500}

\* requests.get / requests.put either raise (no response at all) or hand
\* back a response, whatever its status code.
HttpOutcomes ==
    {[kind |-> "raise", exc |-> e] : e \in {"ConnectionError", "Timeout"}}
        \cup {[kind |-> "response", status |-> s, body |-> b] : s \in StatusCodes, b \in Bodies}

\* Exception hierarchy of the requests library.
IsHTTPError(e) == e = "HTTPError"
IsRequestException(e) == e \in {"HTTPError", "ConnectionError", "Timeout", "JSONDecodeError"}

\* Volumes the host passes to set_volume_level, in thousandths (290 is 0.29).
Volumes == {290, 730, 738, 1000}

-----------------------------------------------------------------------------
\* class Itunes: the transport client

_base_url == conf._host \o ":" \o ToString(conf._port)

\* The library call _request dispatches to for each method name.
Verb(method) ==
    CASE method = "GET" -> "GET"
      [] method = "POST" -> "PUT"
      [] method = "PUT" -> "PUT"
      [] method = "DELETE" -> "DELETE"

\* The except clauses of _request, in order.
Handle(e) ==
    IF IsHTTPError(e) THEN Return(Dict([player_state |-> Str("error")]))
    ELSE IF IsRequestException(e) THEN Return(Dict([player_state |-> Str("offline")]))
    ELSE Raise(e)

\* _request as it would be with one retry after a failed call.
_request_retrying(method, path, params, o) ==
    LET call == [verb |-> Verb(method), url |-> _base_url \o path, params |-> params]
    IN [calls |-> IF o.kind = "raise" THEN <<call, call>> ELSE <<call>>,
        result |-> IF o.kind = "raise" THEN Handle(o.exc)
                   ELSE IF o.body.t = "undecodable" THEN Handle(o.body.exc)
                   ELSE Return(o.body)]

\* One HTTP call with outcome o; the status code of a response is never
\* looked at, its body is decoded whatever it is.
_request(method, path, params, o) ==
    [calls |-> << [verb |-> Verb(method), url |-> _base_url \o path, params |-> params] >>,
     result |-> IF o.kind = "raise" THEN Handle(o.exc)
                ELSE IF o.body.t = "undecodable" THEN Handle(o.body.exc)
                ELSE Return(o.body)]

_command(named_command, o) == _request("PUT", "/" \o named_command, None, o)

now_playing(o) == _request("GET", "/now_playing", None, o)

set_volume(level, o) == _request("PUT", "/volume", [level |-> level], o)

set_muted(muted, o) == _request("PUT", "/mute", [muted |-> muted], o)

play(o) == _command("play", o)

pause(o) == _command("pause", o)

next(o) == _command("next", o)

previous(o) == _command("previous", o)

artwork_url == _base_url \o "/artwork"

-----------------------------------------------------------------------------
\* class ItunesDevice: the adapter

\* The fields as __init__ leaves them before its call of update().
Unset ==
    [player_state |-> None, current_volume |-> None, muted |-> None,
     current_title |-> None, current_album |-> None, current_artist |-> None,
     current_playlist |-> None, content_id |-> None]

\* update_state as it would be if a missing key kept the cached value.
update_state_merging(state_hash) ==
    IF state_hash.t # "dict" THEN Raise("AttributeError")
    ELSE Return(
        [player_state |-> Get(state_hash.v, "player_state", None),
         current_volume |-> Get(state_hash.v, "volume", dev.current_volume),
         muted |-> Get(state_hash.v, "muted", dev.muted),
         current_title |-> Get(state_hash.v, "name", dev.current_title),
         current_album |-> Get(state_hash.v, "album", dev.current_album),
         current_artist |-> Get(state_hash.v, "artist", dev.current_artist),
         current_playlist |-> Get(state_hash.v, "playlist", dev.current_playlist),
         content_id |-> Get(state_hash.v, "id", dev.content_id)])

\* update_state as it would be if the volume defaulted to None like the rest.
update_state_volume_none(state_hash) ==
    IF state_hash.t # "dict" THEN Raise("AttributeError")
    ELSE Return(
        [player_state |-> Get(state_hash.v, "player_state", None),
         current_volume |-> Get(state_hash.v, "volume", None),
         muted |-> Get(state_hash.v, "muted", None),
         current_title |-> Get(state_hash.v, "name", None),
         current_album |-> Get(state_hash.v, "album", None),
         current_artist |-> Get(state_hash.v, "artist", None),
         current_playlist |-> Get(state_hash.v, "playlist", None),
         content_id |-> Get(state_hash.v, "id", None)])

\* update_state: every field is assigned from the mapping; a value that is
\* not a mapping has no get() and the first line raises.
update_state(state_hash) ==
    IF state_hash.t # "dict" THEN Raise("AttributeError")
    ELSE Return(
        [player_state |-> Get(state_hash.v, "player_state", None),
         current_volume |-> Get(state_hash.v, "volume", Int_(0)),
         muted |-> Get(state_hash.v, "muted", None),
         current_title |-> Get(state_hash.v, "name", None),
         current_album |-> Get(state_hash.v, "album", None),
         current_artist |-> Get(state_hash.v, "artist", None),
         current_playlist |-> Get(state_hash.v, "playlist", None),
         content_id |-> Get(state_hash.v, "id", None)])

\* The state property as it would be without the test for 'stopped'.
state_without_stopped(d) ==
    IF d.player_state = Str("offline") \/ d.player_state = None THEN "offline"
    ELSE IF d.player_state = Str("error") THEN "error"
    ELSE IF d.player_state = Str("paused") THEN STATE_PAUSED
    ELSE STATE_PLAYING

\* The state property.
state(d) ==
    IF d.player_state = Str("offline") \/ d.player_state = None THEN "offline"
    ELSE IF d.player_state = Str("error") THEN "error"
    ELSE IF d.player_state = Str("stopped") THEN STATE_IDLE
    ELSE IF d.player_state = Str("paused") THEN STATE_PAUSED
    ELSE STATE_PLAYING

\* The volume_level property: current_volume/100.0, a TypeError on None.
volume_level(d) ==
    IF d.current_volume.t = "int" THEN Return(Float(d.current_volume.v, 100))
    ELSE Raise("TypeError")

\* The media_image_url property: the raw player_state is compared with the
\* host's state constants.
media_image_url(d) ==
    IF d.player_state \in {Str(STATE_PLAYING), Str(STATE_IDLE), Str(STATE_PAUSED)}
       /\ d.current_title # None
    THEN artwork_url
    ELSE PLACEHOLDER_URL

supported_media_commands == SUPPORT_ITUNES

Properties ==
    {"name", "state", "volume_level", "is_volume_muted", "media_title", "media_artist",
     "media_album_name", "media_content_id", "media_image_url", "supported_media_commands"}

\* What reading property p returns.
PropertyValue(p) ==
    CASE p = "name" -> Return(Str(conf._name))
      [] p = "state" -> Return(Str(state(dev)))
      [] p = "volume_level" -> volume_level(dev)
      [] p = "is_volume_muted" -> Return(dev.muted)
      [] p = "media_title" -> Return(dev.current_title)
      [] p = "media_artist" -> Return(dev.current_artist)
      [] p = "media_album_name" -> Return(dev.current_album)
      [] p = "media_content_id" -> Return(dev.content_id)
      [] p = "media_image_url" -> Return(Str(media_image_url(dev)))
      [] p = "supported_media_commands" -> Return(supported_media_commands)

\* Doubles v = k/1000 (k a multiple of 10) whose product v * 100 is the double
\* just below the integer k/10: 0.29 * 100 = 28.999999999999996, and the
\* same for 0.57 and 0.58.
ProductJustBelow == {290, 570, 580}

\* int(volume * 100) for volume = k/1000: int() truncates.
IntVolumeTimes100(k) ==
    IF k \in ProductJustBelow THEN (k \div 10) - 1 ELSE k \div 10

NoResponse == [t |-> "no response"]
NoRead == [prop |-> "none"]

\* What the library did, without the body.
Seen(o) == IF o.kind = "raise" THEN [kind |-> "raise", exc |-> o.exc, body |-> "none"]
           ELSE [kind |-> "response", status |-> o.status, body |-> o.body.t]

\* The tail every operation shares: response = self.client.<call>() and then
\* self.update_state(response). r is the client call with its outcome.
Operate(op, arg, r, o) ==
    /\ ops < MaxOps
    /\ ops' = ops + 1
    /\ lastOp' = [op |-> op, arg |-> arg]
    /\ http' = r.calls
    /\ requests' = requests + Len(r.calls)
    /\ outcome' = Seen(o)
    /\ lastRead' = NoRead
    /\ UNCHANGED conf
    /\ IF Raises(r.result)
       THEN /\ response' = NoResponse
            /\ raised' = r.result.exc
            /\ UNCHANGED dev
       ELSE /\ response' = r.result.ret
            /\ LET u == update_state(r.result.ret)
               IN IF Raises(u)
                  THEN raised' = u.exc /\ UNCHANGED dev
                  ELSE raised' = "none" /\ dev' = u.ret

Init ==
    /\ phase = "new"
    /\ conf = [_name |-> "iTunes", _host |-> "http://192.168.1.16", _port |-> 8181]
    /\ dev = Unset
    /\ lastOp = [op |-> "none", arg |-> None]
    /\ http = << >>
    /\ requests = 0
    /\ ops = 0
    /\ outcome = [kind |-> "none"]
    /\ response = NoResponse
    /\ raised = "none"
    /\ lastRead = NoRead

\* ItunesDevice(name, host, port): the fields are set, then update() runs;
\* an exception leaves the caller without a device.
Construct ==
    /\ phase = "new"
    /\ \E o \in HttpOutcomes : Operate("__init__", None, now_playing(o), o)
    /\ phase' = IF raised' = "none" THEN "ready" ELSE "failed"

update ==
    /\ phase = "ready"
    /\ \E o \in HttpOutcomes : Operate("update", None, now_playing(o), o)
    /\ UNCHANGED phase

set_volume_level ==
    /\ phase = "ready"
    /\ \E volume \in Volumes, o \in HttpOutcomes :
          Operate("set_volume_level", Float(volume, 1000),
                  set_volume(Int_(IntVolumeTimes100(volume)), o), o)
    /\ UNCHANGED phase

mute_volume ==
    /\ phase = "ready"
    /\ \E mute \in BOOLEAN, o \in HttpOutcomes :
          Operate("mute_volume", Bool(mute), set_muted(Bool(mute), o), o)
    /\ UNCHANGED phase

media_play ==
    /\ phase = "ready"
    /\ \E o \in HttpOutcomes : Operate("media_play", None, play(o), o)
    /\ UNCHANGED phase

media_pause ==
    /\ phase = "ready"
    /\ \E o \in HttpOutcomes : Operate("media_pause", None, pause(o), o)
    /\ UNCHANGED phase

media_next_track ==
    /\ phase = "ready"
    /\ \E o \in HttpOutcomes : Operate("media_next_track", None, next(o), o)
    /\ UNCHANGED phase

media_previous_track ==
    /\ phase = "ready"
    /\ \E o \in HttpOutcomes : Operate("media_previous_track", None, previous(o), o)
    /\ UNCHANGED phase

\* A property read as it would be if the state property polled the server.
ReadPropertyPolling ==
    /\ phase = "ready"
    /\ \E p \in Properties :
          /\ lastRead' = [prop |-> p, got |-> PropertyValue(p)]
          /\ IF p = "state"
             THEN \E o \in HttpOutcomes :
                     LET r == now_playing(o)
                         u == IF Raises(r.result) THEN r.result ELSE update_state(r.result.ret)
                     IN /\ requests' = requests + Len(r.calls)
                        /\ http' = r.calls
                        /\ dev' = IF Raises(u) THEN dev ELSE u.ret
             ELSE UNCHANGED <<dev, http, requests>>
    /\ UNCHANGED <<phase, conf, lastOp, ops, outcome, response, raised>>

\* The host reads one property of the device.
ReadProperty ==
    /\ phase = "ready"
    /\ \E p \in Properties : lastRead' = [prop |-> p, got |-> PropertyValue(p)]
    /\ UNCHANGED <<phase, conf, dev, lastOp, http, requests, ops, outcome, response, raised>>

Next ==
    \/ Construct
    \/ update
    \/ set_volume_level
    \/ mute_volume
    \/ media_play
    \/ media_pause
    \/ media_next_track
    \/ media_previous_track
    \/ ReadProperty

Spec == Init /\ [][Next]_vars

-----------------------------------------------------------------------------
\* Properties

\* Whether the latest step was an adapter operation that returned normally.
Returned == lastOp.op # "none" /\ raised = "none"

\* C1: for every cached raw player_state the state property follows the
\* cascade: None or 'offline' is 'offline', 'error' is 'error', 'stopped' is
\* 'idle', 'paused' is 'paused', 'playing' and any other value is 'playing';
\* and a read of the property returns just that.
C1_StateCascade ==
    /\ state(dev) =
          CASE dev.player_state = None -> "offline"
            [] dev.player_state = Str("offline") -> "offline"
            [] dev.player_state = Str("error") -> "error"
            [] dev.player_state = Str("stopped") -> "idle"
            [] dev.player_state = Str("paused") -> "paused"
            [] OTHER -> "playing"
    /\ lastRead.prop = "state" => lastRead.got = Return(Str(state(dev)))

\* The host reads state while the cache holds 'stopped' from a second operation.
C1_Witness ==
    /\ ops >= 2
    /\ lastRead.prop = "state"
    /\ dev.player_state = Str("stopped")
    /\ lastRead.got = Return(Str("idle"))

\* C2: media_image_url is the artwork URL if and only if the normalized state
\* is one of playing, idle, paused and the title is not None; otherwise it is
\* the placeholder.
C2_ImageUrlByNormalizedState ==
    phase = "ready" =>
        media_image_url(dev) =
            IF state(dev) \in {"playing", "idle", "paused"} /\ dev.current_title # None
            THEN artwork_url
            ELSE PLACEHOLDER_URL

\* C3: an HTTP error status makes the client return {player_state: 'error'}
\* and the operation end in normalized state 'error'.
C3_HttpErrorStatusIsError ==
    (outcome.kind = "response" /\ outcome.status >= 400) =>
        /\ response = Dict([player_state |-> Str("error")])
        /\ raised = "none"
        /\ state(dev) = "error"

\* C4: no exception escapes an operation, whatever the HTTP call did.
C4_NoExceptionEscapes == raised = "none"

\* C5: after an operation whose HTTP call failed at the transport level the
\* client has returned {player_state: 'offline'}, the state is 'offline',
\* title, artist, album, content id and muted are None and the volume is 0.
C5_TransportFailureIsOffline ==
    outcome.kind = "raise" =>
        /\ response = Dict([player_state |-> Str("offline")])
        /\ raised = "none"
        /\ state(dev) = "offline"
        /\ PropertyValue("media_title") = Return(None)
        /\ PropertyValue("media_artist") = Return(None)
        /\ PropertyValue("media_album_name") = Return(None)
        /\ PropertyValue("media_content_id") = Return(None)
        /\ PropertyValue("is_volume_muted") = Return(None)
        /\ dev.current_volume = Int_(0)

\* A command issued after construction meets an unreachable host.
C5_Witness ==
    /\ ops >= 2
    /\ lastOp.op = "media_play"
    /\ outcome.kind = "raise"
    /\ outcome.exc = "ConnectionError"
    /\ dev.current_title = None

\* The mapping the latest operation got from the client, empty if it got none.
LatestMapping == IF response.t = "dict" THEN response.v ELSE << >>

\* C6: after construction and any operations every cached field is the value
\* of its key in the latest operation's response, or the default if the
\* key is absent; nothing of an earlier response is left.
C6_CacheIsLatestResponse ==
    phase = "ready" =>
        /\ dev.player_state = Get(LatestMapping, "player_state", None)
        /\ dev.current_volume = Get(LatestMapping, "volume", Int_(0))
        /\ dev.muted = Get(LatestMapping, "muted", None)
        /\ dev.current_title = Get(LatestMapping, "name", None)
        /\ dev.current_album = Get(LatestMapping, "album", None)
        /\ dev.current_artist = Get(LatestMapping, "artist", None)
        /\ dev.current_playlist = Get(LatestMapping, "playlist", None)
        /\ dev.content_id = Get(LatestMapping, "id", None)

\* The nearest integer to k/10, for k not ending in 5.
Nearest(k) == (k + 5) \div 10

\* C7: set_volume_level(v) sends round(v * 100) as the level.
C7_VolumeIsRounded ==
    lastOp.op = "set_volume_level" =>
        http[1].params = [level |-> Int_(Nearest(lastOp.arg.num))]

\* C8: once constructed, the cached volume is an integer in 0..100 and
\* volume_level is defined, equal to volume/100 and within 0.0..1.0.
C8_VolumeLevelDefined ==
    phase = "ready" =>
        /\ dev.current_volume.t = "int"
        /\ dev.current_volume.v \in 0..100
        /\ ~Raises(volume_level(dev))
        /\ volume_level(dev).ret.num = dev.current_volume.v
        /\ volume_level(dev).ret.den = 100
        /\ 0 <= volume_level(dev).ret.num /\ volume_level(dev).ret.num <= volume_level(dev).ret.den
        /\ lastRead.prop = "volume_level" => ~Raises(lastRead.got)

\* The host reads volume_level after a response without a volume key.
C8_Witness ==
    /\ ops >= 2
    /\ lastRead.prop = "volume_level"
    /\ response.t = "dict"
    /\ "volume" \notin DOMAIN response.v
    /\ lastRead.got = Return(Float(0, 100))

\* The single HTTP call each operation is to make.
ExpectedCall ==
    CASE lastOp.op \in {"__init__", "update"} ->
            [verb |-> "GET", url |-> "http://192.168.1.16:8181/now_playing", params |-> None]
      [] lastOp.op = "set_volume_level" ->
            [verb |-> "PUT", url |-> "http://192.168.1.16:8181/volume",
             params |-> [level |-> http[1].params.level]]
      [] lastOp.op = "mute_volume" ->
            [verb |-> "PUT", url |-> "http://192.168.1.16:8181/mute",
             params |-> [muted |-> lastOp.arg]]
      [] lastOp.op = "media_play" ->
            [verb |-> "PUT", url |-> "http://192.168.1.16:8181/play", params |-> None]
      [] lastOp.op = "media_pause" ->
            [verb |-> "PUT", url |-> "http://192.168.1.16:8181/pause", params |-> None]
      [] lastOp.op = "media_next_track" ->
            [verb |-> "PUT", url |-> "http://192.168.1.16:8181/next", params |-> None]
      [] lastOp.op = "media_previous_track" ->
            [verb |-> "PUT", url |-> "http://192.168.1.16:8181/previous", params |-> None]

\* C9: every operation makes exactly one HTTP call, the one of its endpoint,
\* also when the call fails; calls made and operations invoked are equal in
\* number.
C9_OneRequestPerOperation ==
    /\ requests = ops
    /\ lastOp.op # "none" =>
          /\ Len(http) = 1
          /\ DOMAIN http[1].params = DOMAIN ExpectedCall.params
          /\ http[1] = ExpectedCall
          /\ lastOp.op = "set_volume_level" =>
                /\ http[1].params.level.t = "int"
                /\ http[1].params.level.v \in 0..100

\* A skip to the next track after construction fails at the transport level.
C9_Witness ==
    /\ ops >= 2
    /\ requests >= 2
    /\ lastOp.op = "media_next_track"
    /\ outcome.kind = "raise"

\* C10: a step that is not an adapter operation, that is a property read,
\* leaves the cached fields, the configuration and the HTTP traffic as they
\* were; supported_media_commands is the same set of flags in every state.
C10_ReadsChangeNothing ==
    /\ [][ops' = ops => UNCHANGED <<dev, conf, http, requests>>]_vars
    /\ [](lastRead.prop = "supported_media_commands" =>
             lastRead.got = Return({"SUPPORT_PAUSE", "SUPPORT_VOLUME_SET", "SUPPORT_VOLUME_MUTE",
                                    "SUPPORT_PREVIOUS_TRACK", "SUPPORT_NEXT_TRACK", "SUPPORT_SEEK"}))

\* The host reads state after a call that failed: still offline, one call made.
C10_Witness ==
    /\ lastRead.prop = "state"
    /\ lastRead.got = Return(Str("offline"))
    /\ outcome.kind = "raise"
    /\ requests = ops

====
